---- MODULE Spec2Model ----
(***************************************************************************)
(* Model of asset_web_service.py: an in-memory asset registry served over  *)
(* HTTP, two scrapers of the CBR rate pages and the revenue calculation    *)
(* that joins them.                                                        *)
(*                                                                         *)
(* Text (asset names, currency codes, lines of a page, query parameters)   *)
(* is modelled as a sequence of one-character strings, so that escaping,   *)
(* stripping, number parsing and ordering are computed and not assumed.    *)
(* Real numbers are fixed-point integers counting units of 10^-8, the      *)
(* resolution of the code's round(x, 8).                                   *)
(***************************************************************************)
EXTENDS Integers, Sequences, FiniteSets, TLC

\* ------------------------------------------------------------------ bounds

\* Largest number of assets the model lets the registry hold.
MaxAssets == 2

\* ------------------------------------------------------------------- text

\* Code points of the characters the model uses (Python compares str by code point).
Ord(c) ==
  CASE c = " " -> 32 [] c = "\"" -> 34 [] c = "#" -> 35 [] c = "&" -> 38
    [] c = "'" -> 39 [] c = "," -> 44 [] c = "." -> 46
    [] c = "0" -> 48 [] c = "1" -> 49 [] c = "2" -> 50 [] c = "3" -> 51
    [] c = "4" -> 52 [] c = "5" -> 53 [] c = "6" -> 54 [] c = "7" -> 55
    [] c = "8" -> 56 [] c = "9" -> 57 [] c = ";" -> 59 [] c = "<" -> 60
    [] c = ">" -> 62 [] c = "A" -> 65 [] c = "B" -> 66 [] c = "D" -> 68
    [] c = "E" -> 69 [] c = "G" -> 71 [] c = "P" -> 80 [] c = "R" -> 82
    [] c = "S" -> 83 [] c = "U" -> 85 [] c = "X" -> 88 [] c = "Y" -> 89
    [] c = "Z" -> 90 [] c = "a" -> 97 [] c = "g" -> 103 [] c = "l" -> 108
    [] c = "m" -> 109 [] c = "p" -> 112 [] c = "t" -> 116 [] c = "u" -> 117
    [] c = "x" -> 120

RECURSIVE StrLess(_, _)
\* s < t for Python strings: lexicographic by code point, a proper prefix first.
StrLess(s, t) ==
  IF t = <<>> THEN FALSE
  ELSE IF s = <<>> THEN TRUE
  ELSE IF Head(s) = Head(t) THEN StrLess(Tail(s), Tail(t))
  ELSE Ord(Head(s)) < Ord(Head(t))

\* markupsafe.escape of one character.
EscapeChar(c) ==
  CASE c = "&" -> <<"&", "a", "m", "p", ";">>
    [] c = "<" -> <<"&", "l", "t", ";">>
    [] c = ">" -> <<"&", "g", "t", ";">>
    [] c = "'" -> <<"&", "#", "3", "9", ";">>
    [] c = "\"" -> <<"&", "#", "3", "4", ";">>
    [] OTHER -> <<c>>

RECURSIVE Escape(_)
\* flask.escape: every markup character replaced by its HTML entity.
Escape(s) == IF s = <<>> THEN <<>> ELSE EscapeChar(Head(s)) \o Escape(Tail(s))

\* ----------------------------------------------------------------- assets

\* Asset.__init__: the four fields of an asset.
Asset(name, char_code, capital, interest) ==
  [char_code |-> char_code, name |-> name, capital |-> capital, interest |-> interest]

\* Buggy variant of build_from_query: the name is stored as sent.
build_from_query_RawName(char_code, name, capital, interest) ==
  Asset(name, Escape(char_code), capital, interest)

\* Asset.build_from_query: both texts escaped; float() of a route's int or
\* float value is that same number.
build_from_query(char_code, name, capital, interest) ==
  Asset(Escape(name), Escape(char_code), capital, interest)

\* Asset.get_asset: the list the JSON answers hold.
get_asset(a) == <<a.char_code, a.name, a.capital, a.interest>>

\* asset_has_duplicate_name, buggy variant: compares the currency codes.
asset_has_duplicate_name_Code(assets, new_asset) ==
  \E i \in 1..Len(assets) : assets[i].char_code = new_asset.char_code

\* asset_has_duplicate_name: some stored asset has the new asset's name.
asset_has_duplicate_name(assets, new_asset) ==
  \E i \in 1..Len(assets) : assets[i].name = new_asset.name

RECURSIVE InsertByCharCode(_, _)
\* One step of a stable insertion: a goes behind every element whose key is
\* not greater than its own.
InsertByCharCode(sorted, a) ==
  IF sorted = <<>> THEN <<a>>
  ELSE IF StrLess(a.char_code, Head(sorted).char_code) THEN <<a>> \o sorted
  ELSE <<Head(sorted)>> \o InsertByCharCode(Tail(sorted), a)

RECURSIVE SortFrom(_, _)
SortFrom(sorted, rest) ==
  IF rest = <<>> THEN sorted
  ELSE SortFrom(InsertByCharCode(sorted, Head(rest)), Tail(rest))

\* Buggy variant of the sort: the list is left in insertion order.
SortByCharCode_None(assets) == assets

\* all_assets.sort(key=lambda x: x.char_code): stable, ascending by code.
SortByCharCode(assets) == SortFrom(<<>>, assets)

RECURSIVE Rows(_)
\* [asset.get_asset() for asset in assets]
Rows(assets) ==
  IF assets = <<>> THEN <<>> ELSE <<get_asset(Head(assets))>> \o Rows(Tail(assets))

\* Membership of a text in a list of texts (Python's "in" on a list).
InList(x, xs) == \E i \in 1..Len(xs) : xs[i] = x

RECURSIVE RowsNamed_InputOrder(_, _)
\* Buggy variant of the loop of get_assets_by_name: one pass per requested name.
RowsNamed_InputOrder(assets, input_names) ==
  IF input_names = <<>> THEN <<>>
  ELSE Rows(SelectSeq(assets, LAMBDA a : a.name = Head(input_names)))
       \o RowsNamed_InputOrder(assets, Tail(input_names))

RECURSIVE RowsNamed(_, _)
\* The loop of get_assets_by_name: the rows of the assets whose name is requested.
RowsNamed(assets, input_names) ==
  IF assets = <<>> THEN <<>>
  ELSE (IF InList(Head(assets).name, input_names)
          THEN <<get_asset(Head(assets))>> ELSE <<>>)
       \o RowsNamed(Tail(assets), input_names)

\* ---------------------------------------------------------------- numbers

\* Fixed-point unit: a real x is the integer x * 10^8 (round(x, 8) keeps 8 decimals).
Scale == 100000000

DigitChars == {"0", "1", "2", "3", "4", "5", "6", "7", "8", "9"}

Digit(c) == Ord(c) - 48

RECURSIVE Strip(_)
RECURSIVE StripRight(_)
StripRight(s) ==
  IF s # <<>> /\ s[Len(s)] = " " THEN StripRight(SubSeq(s, 1, Len(s) - 1)) ELSE s

\* str.strip(): blanks removed at both ends.
Strip(s) == IF s # <<>> /\ Head(s) = " " THEN Strip(Tail(s)) ELSE StripRight(s)

RECURSIVE RemoveCommas(_)
\* price.replace(',', '')
RemoveCommas(s) ==
  IF s = <<>> THEN <<>>
  ELSE (IF Head(s) = "," THEN <<>> ELSE <<Head(s)>>) \o RemoveCommas(Tail(s))

AllDigits(s) == \A i \in 1..Len(s) : s[i] \in DigitChars

RECURSIVE DigitsValue(_)
DigitsValue(s) ==
  IF s = <<>> THEN 0 ELSE 10 * DigitsValue(SubSeq(s, 1, Len(s) - 1)) + Digit(s[Len(s)])

\* int(text) succeeds: a decimal literal, blanks around it allowed (the
\* texts of the model carry no sign).
IsIntText(s) == Strip(s) # <<>> /\ AllDigits(Strip(s))

\* int(text).
IntOf(s) == DigitsValue(Strip(s))

\* Position of the decimal point of a text, 0 when it has none.
PointAt(s) ==
  IF \E i \in 1..Len(s) : s[i] = "." THEN CHOOSE i \in 1..Len(s) : s[i] = "." ELSE 0

IntPart(s) == IF PointAt(s) = 0 THEN s ELSE SubSeq(s, 1, PointAt(s) - 1)

FracPart(s) == IF PointAt(s) = 0 THEN <<>> ELSE SubSeq(s, PointAt(s) + 1, Len(s))

\* float(text) succeeds: digits with at most one decimal point, blanks around
\* it allowed (the pages carry no signs or exponents).
IsFloatText(s) ==
  LET t == Strip(s) IN
  /\ AllDigits(IntPart(t))
  /\ AllDigits(FracPart(t))
  /\ Len(IntPart(t)) + Len(FracPart(t)) > 0

RECURSIVE Pow(_, _)
Pow(b, e) == IF e = 0 THEN 1 ELSE b * Pow(b, e - 1)

\* float(text) in units of 10^-8, for a text of at most 8 decimals.
FloatOf(s) ==
  LET t == Strip(s)
      f == FracPart(t)
  IN  DigitsValue(IntPart(t)) * Scale + DigitsValue(f) * Pow(10, 8 - Len(f))

\* round(n / d, 8) for n in units of 10^-8: the quotient rounded to the
\* nearest unit, a tie to the even one.
RoundDiv(n, d) ==
  LET q == n \div d
      r == n % d
  IN  IF 2 * r < d THEN q
      ELSE IF 2 * r > d THEN q + 1
      ELSE IF q % 2 = 0 THEN q ELSE q + 1

\* ------------------------------------------------------------ rate tables

\* dict[key] = value on a dict modelled as a function.
Put(dict, key, value) ==
  [k \in DOMAIN dict \cup {key} |-> IF k = key THEN value ELSE dict[k]]

EmptyDict == [k \in {} |-> 0]

\* A call that returned `value`, and a call that raised.
Returned(value) == [raised |-> FALSE, value |-> value]

Raised == [raised |-> TRUE, value |-> EmptyDict]

RECURSIVE NodesOfClass(_, _, _)
\* The xpath queries: the document's nodes with the tag and class asked for.
NodesOfClass(nodes, tag, class) ==
  IF nodes = <<>> THEN <<>>
  ELSE (IF Head(nodes).tag = tag /\ Head(nodes).class = class
          THEN <<Head(nodes)>> ELSE <<>>)
       \o NodesOfClass(Tail(nodes), tag, class)

RECURSIVE Concat(_)
Concat(seqs) == IF seqs = <<>> THEN <<>> ELSE Head(seqs) \o Concat(Tail(seqs))

\* '//table[@class="data"]/tbody/tr': the rows of every such table, each row
\* as the lines of its text_content().
DataRows(doc) ==
  LET tables == NodesOfClass(doc.nodes, "table", "data")
  IN  Concat([i \in 1..Len(tables) |-> tables[i].rows])

\* A data row the loop body gets through: lines 2, 3 and 5 exist (counted
\* from 0), line 3 is an integer other than 0 and line 5 a number.
DailyRowOk(el) ==
  /\ Len(el) >= 6
  /\ IsIntText(el[4])
  /\ IntOf(el[4]) # 0
  /\ IsFloatText(el[6])

RECURSIVE DailyLoop(_, _)
\* for el in elements[1:]: currencies[char_code] = round(rate / unit, 8)
DailyLoop(currencies, els) ==
  IF els = <<>> THEN Returned(currencies)
  ELSE LET el == Head(els) IN
       IF ~DailyRowOk(el) THEN Raised
       ELSE DailyLoop(Put(currencies, Strip(el[3]),
                          RoundDiv(FloatOf(el[6]), IntOf(el[4]))),
                      Tail(els))

\* parse_cbr_currency_base_daily: lxml refuses an empty document; elements[1:]
\* of no row or of the header row alone is the empty list.
parse_cbr_currency_base_daily(doc) ==
  IF ~doc.parsable THEN Raised
  ELSE LET elements == DataRows(doc) IN
       DailyLoop(EmptyDict, IF elements = <<>> THEN <<>> ELSE Tail(elements))

\* lines[a:] with a >= 0 and lines[a:-b]: Python slices never raise.
Slice(lines, from, dropLast) ==
  IF from + 1 > Len(lines) - dropLast THEN <<>>
  ELSE SubSeq(lines, from + 1, Len(lines) - dropLast)

RECURSIVE EveryNth(_, _)
\* lines[::n]
EveryNth(lines, n) ==
  IF lines = <<>> THEN <<>>
  ELSE <<Head(lines)>> \o EveryNth(Slice(lines, n, 0), n)

RECURSIVE ZipDict(_, _, _)
\* dict(zip(keys, values)): as many pairs as the shorter list has.
ZipDict(dict, keys, values) ==
  IF keys = <<>> \/ values = <<>> THEN dict
  ELSE ZipDict(Put(dict, Strip(Head(keys)), FloatOf(RemoveCommas(Head(values)))),
               Tail(keys), Tail(values))

\* parse_cbr_key_indicators: the second element holds the metals in groups of
\* 9 lines, the first the USD and EUR rates at lines 16 and -5.
parse_cbr_key_indicators(doc) ==
  IF ~doc.parsable THEN Raised
  ELSE LET elements == NodesOfClass(doc.nodes, "div", "table key-indicator_table") IN
       IF Len(elements) < 2 THEN Raised
       ELSE LET metals == Slice(elements[2].lines, 11, 4)
                codes == EveryNth(metals, 9)
                prices == EveryNth(Slice(metals, 3, 0), 9)
                first == elements[1].lines
            IN  IF \E i \in 1..Len(prices) : ~IsFloatText(RemoveCommas(prices[i]))
                  THEN Raised
                ELSE IF Len(first) < 17 \/ ~IsFloatText(first[17])
                        \/ ~IsFloatText(first[Len(first) - 4])
                  THEN Raised
                ELSE Returned(Put(Put(ZipDict(EmptyDict, codes, prices),
                                      <<"U", "S", "D">>, FloatOf(first[17])),
                                  <<"E", "U", "R">>, FloatOf(first[Len(first) - 4])))

\* A reply of the upstream site: the transport worked or not, the status
\* code, and the document sent.
\* get_daily_currencies as a function: 503 is an HTTPException raised.
get_daily_currencies(reply) ==
  IF ~reply.reached THEN Raised
  ELSE IF reply.status_code = 200 THEN parse_cbr_currency_base_daily(reply.text)
  ELSE Raised

\* get_indicators as a function.
get_indicators(reply) ==
  IF ~reply.reached THEN Raised
  ELSE IF reply.status_code = 200 THEN parse_cbr_key_indicators(reply.text)
  ELSE Raised

\* ---------------------------------------------------------------- revenue

RUB == <<"R", "U", "B">>

USD == <<"U", "S", "D">>

GBP == <<"G", "B", "P">>

XYZ == <<"X", "Y", "Z">>

\* Asset.calculate_revenue: rate * capital * ((1 + interest) ** years - 1).
calculate_revenue(asset, years, rate) ==
  rate * asset.capital * (Pow(1 + asset.interest, years) - 1)

\* Buggy variant of the rate choice: the daily table is asked first.
RateOf_DailyFirst(asset_code, indicators, currencies) ==
  LET cur == IF asset_code = RUB THEN Put(currencies, RUB, Scale) ELSE currencies
  IN  IF asset_code \in DOMAIN cur THEN cur[asset_code]
      ELSE IF asset_code \in DOMAIN indicators THEN indicators[asset_code]
      ELSE 0

\* Lines 166-173 of calc_all_revenue: currencies['RUB'] = 1 for a rouble
\* asset, then the key indicators' rate when the code is there, else
\* currencies.get(code, 0).  (The entry written for RUB stays in the dict for
\* the assets that follow; only a lookup of RUB reads it.)
RateOf(asset_code, indicators, currencies) ==
  LET cur == IF asset_code = RUB THEN Put(currencies, RUB, Scale) ELSE currencies
  IN  IF asset_code \in DOMAIN indicators THEN indicators[asset_code]
      ELSE IF asset_code \in DOMAIN cur THEN cur[asset_code]
      ELSE 0

RECURSIVE PeriodTotal(_, _, _, _)
\* The inner loop: the sum over the assets of their revenue for `years`.
PeriodTotal(assets, years, indicators, currencies) ==
  IF assets = <<>> THEN 0
  ELSE calculate_revenue(Head(assets), years,
                         RateOf(Head(assets).char_code, indicators, currencies))
       + PeriodTotal(Tail(assets), years, indicators, currencies)

\* The body of calc_all_revenue after the two tables are there: int(period)
\* is evaluated once per asset, so it raises only when there is an asset; a
\* period named twice is one key of the result.
RevenueTable(assets, input_periods, indicators, currencies) ==
  IF assets # <<>> /\ \E i \in 1..Len(input_periods) : ~IsIntText(input_periods[i])
    THEN Raised
  ELSE Returned([p \in {input_periods[i] : i \in 1..Len(input_periods)} |->
                  IF assets = <<>> THEN 0
                  ELSE PeriodTotal(assets, IntOf(p), indicators, currencies)])

\* calc_all_revenue between try and except, given what get_indicators() and
\* get_daily_currencies() came back with: either one raising ends the request.
RevenueOrRaise(assets, input_periods, indicators, currencies) ==
  IF indicators.raised \/ currencies.raised THEN Raised
  ELSE RevenueTable(assets, input_periods, indicators.value, currencies.value)

\* --------------------------------------------------------------- upstream

\* n empty lines.
Blank(n) == [i \in 1..n |-> <<>>]

\* The lines of one row of the daily table: number code, letter code, unit,
\* name and rate, each on a line of its own behind the row's first line break.
DailyRow(code, unit, rate) == <<<<>>, <<"8", "4", "0">>, code, unit, <<"x">>, rate, <<>>>>

HeaderRow == <<<<>>, <<"x">>, <<"x">>, <<"x">>, <<"x">>, <<"x">>, <<>>>>

Page(nodes) == [parsable |-> TRUE, nodes |-> nodes]

Table(class, rows) == [tag |-> "table", class |-> class, rows |-> rows, lines |-> <<>>]

Div(class, lines) == [tag |-> "div", class |-> class, rows |-> <<>>, lines |-> lines]

Reply(status_code, text) == [reached |-> TRUE, status_code |-> status_code, text |-> text]

\* requests.get raised (no connection).
NoReply == [reached |-> FALSE, status_code |-> 0, text |-> Page(<<>>)]

\* The daily page: USD 0.5 for 1, GBP 1 for 3, RUB 0.5 for 1.
DailyPage ==
  Page(<<Table("data", <<HeaderRow,
                         DailyRow(<<" ", "U", "S", "D">>, <<"1">>, <<"0", ".", "5">>),
                         DailyRow(GBP, <<"3">>, <<"1">>),
                         DailyRow(RUB, <<"1">>, <<"0", ".", "5">>)>>)>>)

\* A page without the table of class "data".
DailyNoTable == Page(<<Table("other", <<HeaderRow, DailyRow(USD, <<"1">>, <<"1">>)>>)>>)

\* The table with its header row alone.
DailyHeaderOnly == Page(<<Table("data", <<HeaderRow>>)>>)

\* A data row whose unit is no number.
DailyBadUnit ==
  Page(<<Table("data", <<HeaderRow, DailyRow(USD, <<"x">>, <<"1">>)>>)>>)

\* The replies the daily URL is modelled to give, by name.
DailyReplies == { "page", "no table", "header only", "bad unit", "404", "no reply" }

DailyReply(id) ==
  CASE id = "page" -> Reply(200, DailyPage)
    [] id = "no table" -> Reply(200, DailyNoTable)
    [] id = "header only" -> Reply(200, DailyHeaderOnly)
    [] id = "bad unit" -> Reply(200, DailyBadUnit)
    [] id = "404" -> Reply(404, DailyPage)
    [] id = "no reply" -> NoReply

\* What get_daily_currencies() comes back with for each reply.
DailyCall == [id \in DailyReplies |-> get_daily_currencies(DailyReply(id))]

\* The lines of the first key-indicator element: the USD rate on line 16, the
\* EUR rate on the fifth line from the end.
RatesLines(usd, eur) == Blank(16) \o <<usd>> \o Blank(3) \o <<eur>> \o Blank(4)

\* The lines of one metal: its code first, its price on the fourth line.
MetalLines(code, price) == <<code>> \o Blank(2) \o <<price>> \o Blank(5)

KeyClass == "table key-indicator_table"

\* The key-indicators page: USD 1, EUR 1.25 and one metal, priced "1,5".
IndicatorsPage ==
  Page(<<Div(KeyClass, RatesLines(<<"1">>, <<"1", ".", "2", "5">>)),
         Div(KeyClass, Blank(11)
                       \o MetalLines(<<" ", "A", "u">>, <<"1", ",", "5">>)
                       \o Blank(4))>>)

\* The same page with a second instrument, coded RUB and priced 0.25 .
IndicatorsPageRUB ==
  Page(<<Div(KeyClass, RatesLines(<<"1">>, <<"1">>)),
         Div(KeyClass, Blank(11)
                       \o MetalLines(<<"A", "u">>, <<"0", ".", "2", "5">>)
                       \o MetalLines(RUB, <<"0", ".", "2", "5">>)
                       \o Blank(4))>>)

\* A page with one key-indicator element only.
IndicatorsOneDiv == Page(<<Div(KeyClass, RatesLines(<<"1">>, <<"1">>))>>)

\* The replies the key-indicators URL is modelled to give, by name.
IndicatorsReplies == { "page", "page with RUB", "one element", "500" }

IndicatorsReply(id) ==
  CASE id = "page" -> Reply(200, IndicatorsPage)
    [] id = "page with RUB" -> Reply(200, IndicatorsPageRUB)
    [] id = "one element" -> Reply(200, IndicatorsOneDiv)
    [] id = "500" -> Reply(500, IndicatorsPage)

\* What get_indicators() comes back with for each reply.
IndicatorsCall == [id \in IndicatorsReplies |-> get_indicators(IndicatorsReply(id))]

\* ------------------------------------------------------------------ state

VARIABLES
  all_assets,   \* the module's list of assets
  request,      \* the request served last
  response,     \* its answer
  added,        \* history: the assets added since the last cleanup
  cleared,      \* history: the names the last cleanup discarded
  threads       \* concurrent serving: where each request thread stands

vars == <<all_assets, request, response, added, cleared, threads>>

\* The values requests are drawn from.
RawNames == { <<"A">>, <<"<">>, <<"&", "l", "t", ";">> }

\* Currency code, capital and interest of the add requests.
Holdings == { <<RUB, 1, 1>>, <<USD, 1, 1>>, <<USD, 2, 0>>, <<GBP, 1, 1>>, <<XYZ, 2, 1>> }

NameLists == { <<>>, << <<"A">> >>, << <<"&", "l", "t", ";">>, <<"A">>, <<"A">> >>,
               << <<"<">> >> }

PeriodLists == { << <<"1">> >>, << <<"2">>, <<"1">>, <<"2">> >>, << <<"x">> >> }

Unavailable == [status |-> 503, text |-> "CBR service is unavailable"]

\* The threads of the concurrent specification.
Threads == { 1, 2 }

Idle == [pc |-> "idle"]

Init ==
  /\ all_assets = <<>>
  /\ request = [op |-> "start"]
  /\ response = [status |-> 0]
  /\ added = {}
  /\ cleared = {}
  /\ threads = [t \in Threads |-> Idle]

\* GET /api/asset/add/<char_code>/<name>/<capital>/<interest>
add_asset(char_code, name, capital, interest) ==
  LET new_asset == build_from_query(char_code, name, capital, interest) IN
  /\ request' = [op |-> "add", char_code |-> char_code, name |-> name,
                 capital |-> capital, interest |-> interest]
  /\ IF asset_has_duplicate_name(all_assets, new_asset)
       THEN /\ response' = [status |-> 403, text |-> "Duplicate asset name"]
            /\ UNCHANGED all_assets
       ELSE /\ Len(all_assets) < MaxAssets
            /\ all_assets' = Append(all_assets, new_asset)
            /\ response' = [status |-> 200, text |-> "Asset was successfully added",
                            name |-> new_asset.name]

\* GET /api/asset/list
print_assets ==
  /\ request' = [op |-> "list"]
  /\ all_assets' = SortByCharCode(all_assets)
  /\ response' = [status |-> 200, json |-> Rows(all_assets')]

\* Buggy variant of clean_assets: without "global", the assignment is to a local.
clean_assets_Local ==
  /\ request' = [op |-> "cleanup"]
  /\ response' = [status |-> 200, text |-> ""]
  /\ UNCHANGED all_assets

\* GET /api/asset/cleanup
clean_assets ==
  /\ request' = [op |-> "cleanup"]
  /\ all_assets' = <<>>
  /\ response' = [status |-> 200, text |-> ""]

\* GET /api/asset/get?name=...
get_assets_by_name(input_names) ==
  /\ request' = [op |-> "get", names |-> input_names]
  /\ all_assets' = SortByCharCode(all_assets)
  /\ response' = [status |-> 200, json |-> RowsNamed(all_assets', input_names)]

\* GET /api/asset/calculate_revenue?period=...
calc_all_revenue(input_periods, indicatorsReply, dailyReply) ==
  LET res == RevenueOrRaise(all_assets, input_periods,
                            IndicatorsCall[indicatorsReply], DailyCall[dailyReply]) IN
  /\ request' = [op |-> "calculate_revenue", periods |-> input_periods,
                 indicators |-> indicatorsReply, daily |-> dailyReply]
  /\ response' = IF res.raised THEN Unavailable
                 ELSE [status |-> 200, json |-> res.value]
  /\ UNCHANGED all_assets

\* GET /cbr/daily
cbr_daily(dailyReply) ==
  LET res == DailyCall[dailyReply] IN
  /\ request' = [op |-> "daily", daily |-> dailyReply]
  /\ response' = IF res.raised THEN Unavailable
                 ELSE [status |-> 200, json |-> res.value]
  /\ UNCHANGED all_assets

\* GET /cbr/key_indicators
cbr_key_indicators(indicatorsReply) ==
  LET res == IndicatorsCall[indicatorsReply] IN
  /\ request' = [op |-> "key_indicators", indicators |-> indicatorsReply]
  /\ response' = IF res.raised THEN Unavailable
                 ELSE [status |-> 200, json |-> res.value]
  /\ UNCHANGED all_assets

AddRequest ==
  \E n \in RawNames, h \in Holdings : add_asset(h[1], n, h[2], h[3])

GetRequest == \E names \in NameLists : get_assets_by_name(names)

RevenueRequest ==
  \E ps \in PeriodLists, ir \in IndicatorsReplies, dr \in DailyReplies :
    calc_all_revenue(ps, ir, dr)

DailyRequest == \E dr \in DailyReplies : cbr_daily(dr)

IndicatorsRequest == \E ir \in IndicatorsReplies : cbr_key_indicators(ir)

\* The names of a list of assets.
NamesOf(assets) == { assets[i].name : i \in 1..Len(assets) }

\* History: the assets the add requests answered 200 since the last cleanup.
Added ==
  added' = IF request'.op = "add" /\ response'.status = 200
             THEN added \cup {[char_code |-> Escape(request'.char_code),
                               name |-> Escape(request'.name),
                               capital |-> request'.capital,
                               interest |-> request'.interest]}
           ELSE IF request'.op = "cleanup" THEN {}
           ELSE added

\* History: the names a cleanup found in the registry.
Cleared == cleared' = IF request'.op = "cleanup" THEN NamesOf(all_assets) ELSE cleared

\* A request served, with the history of what was added.
Serve(Handler) == Handler /\ Added /\ UNCHANGED <<cleared, threads>>

\* A request served, with the history of what cleanups discarded as well.
ServeStore(Handler) == Handler /\ Added /\ Cleared /\ UNCHANGED threads

Next ==
  \/ Serve(AddRequest)
  \/ Serve(print_assets)
  \/ Serve(GetRequest)
  \/ Serve(clean_assets)
  \/ Serve(RevenueRequest)
  \/ Serve(DailyRequest)
  \/ Serve(IndicatorsRequest)

\* The registry's own requests.
NextStore ==
  \/ ServeStore(AddRequest)
  \/ ServeStore(print_assets)
  \/ ServeStore(GetRequest)
  \/ ServeStore(clean_assets)

\* ------------------------------------------------------ concurrent serving
\* Flask serves each request on a thread of its own and the module takes no
\* lock, so the handlers interleave wherever the interpreter may switch
\* threads.  A step below is a stretch of a handler taken as atomic: the
\* duplicate check, list.append, list.sort, one turn of a for loop, the
\* assignment of a new list.  (The interpreter may switch inside the check
\* and inside the sort as well; every interleaving below is one of its.)

\* The add requests and the name lists of the concurrent specification.
ConcurrentAdds == { <<USD, <<"A">>, 1, 1>>, <<RUB, <<"A">>, 2, 1>>, <<GBP, <<"<">>, 1, 1>> }

ConcurrentNameLists == { << <<"A">> >> }

\* Threads that passed the duplicate check and have not appended yet.
Appending == { t \in Threads : threads[t].pc = "append" }

\* add_asset up to the duplicate check: refused at once, or on to the append.
add_asset_check(t, char_code, name, capital, interest) ==
  LET new_asset == build_from_query(char_code, name, capital, interest) IN
  /\ threads[t].pc = "idle"
  /\ ~asset_has_duplicate_name(all_assets, new_asset)
  /\ Len(all_assets) + Cardinality(Appending) < MaxAssets
  /\ threads' = [threads EXCEPT ![t] = [pc |-> "append", new_asset |-> new_asset]]
  /\ UNCHANGED all_assets

\* add_asset from all_assets.append(new_asset) on.
add_asset_append(t) ==
  /\ threads[t].pc = "append"
  /\ all_assets' = Append(all_assets, threads[t].new_asset)
  /\ threads' = [threads EXCEPT ![t] = Idle]

\* print_assets and get_assets_by_name up to the sort: the for loop that
\* follows holds the list object it found in all_assets.
sort_assets(t, op, input_names) ==
  /\ threads[t].pc = "idle"
  /\ all_assets' = SortByCharCode(all_assets)
  /\ threads' = [threads EXCEPT ![t] =
                   [pc |-> "iterate", op |-> op, names |-> input_names,
                    replaced |-> FALSE, list |-> <<>>, i |-> 0, res |-> <<>>]]

\* The list object a thread's for loop walks: the registry's, or the one a
\* cleanup has replaced since.
ListOf(t) == IF threads[t].replaced THEN threads[t].list ELSE all_assets

\* One turn of the for loop, or its end and the answer.
iterate_assets(t) ==
  /\ threads[t].pc = "iterate"
  /\ UNCHANGED all_assets
  /\ IF threads[t].i < Len(ListOf(t))
       THEN LET asset == ListOf(t)[threads[t].i + 1] IN
            threads' = [threads EXCEPT
                          ![t].i = @ + 1,
                          ![t].res = IF threads[t].op = "list"
                                        \/ InList(asset.name, threads[t].names)
                                       THEN Append(@, get_asset(asset)) ELSE @]
       ELSE threads' = [threads EXCEPT ![t] = Idle]

\* clean_assets: all_assets = [] binds the name to a new list; a loop that
\* walks the old list keeps walking it.
clean_assets_thread(t) ==
  /\ threads[t].pc = "idle"
  /\ all_assets' = <<>>
  /\ threads' = [u \in Threads |->
                   IF threads[u].pc = "iterate" /\ ~threads[u].replaced
                     THEN [threads[u] EXCEPT !.replaced = TRUE, !.list = all_assets]
                   ELSE threads[u]]

\* A step of a thread; the serial specifications' variables stand still.
Step(ThreadStep) == ThreadStep /\ UNCHANGED <<request, response, added, cleared>>

NextConcurrent ==
  \/ \E t \in Threads, a \in ConcurrentAdds :
       Step(add_asset_check(t, a[1], a[2], a[3], a[4]))
  \/ \E t \in Threads : Step(add_asset_append(t))
  \/ \E t \in Threads : Step(sort_assets(t, "list", <<>>))
  \/ \E t \in Threads, names \in ConcurrentNameLists : Step(sort_assets(t, "get", names))
  \/ \E t \in Threads : Step(iterate_assets(t))
  \/ \E t \in Threads : Step(clean_assets_thread(t))

\* Requests served one at a time, in any order.
Spec == Init /\ [][Next]_vars

\* Registry requests served by two threads at once.
SpecConcurrent == Init /\ [][NextConcurrent]_vars

\* Registry requests served one at a time, in any order.
SpecStore == Init /\ [][NextStore]_vars

\* ----------------------------------------------------------------- claims

\* C1: whatever requests were served, one at a time, no two assets of the
\* registry have the same name.
C1_UniqueNames ==
  \A i, j \in 1..Len(all_assets) : i # j => all_assets[i].name # all_assets[j].name

\* Two assets are held and an add was just refused.
C1_Witness ==
  /\ Len(all_assets) >= 2
  /\ request.op = "add"
  /\ response.status = 403

\* What an add request answers and does when the name counts as taken or not.
AddOutcome(taken) ==
  IF taken
    THEN /\ response'.status = 403
         /\ response'.text = "Duplicate asset name"
         /\ all_assets' = all_assets
    ELSE /\ response'.status = 200
         /\ all_assets' = Append(all_assets,
                                 [char_code |-> Escape(request'.char_code),
                                  name |-> Escape(request'.name),
                                  capital |-> request'.capital,
                                  interest |-> request'.interest])

\* C2: an add whose name is the name of a stored asset (names as the registry
\* holds them, escaped) is answered 403 "Duplicate asset name" and changes
\* nothing, whatever its other fields; any other add is answered 200 and
\* appends that one asset.
C2_AddOrRefuse ==
  [][request'.op = "add" => AddOutcome(Escape(request'.name) \in NamesOf(all_assets))]_vars

\* An add was refused for its name though its currency code and capital
\* differ from the stored asset's.
C2_Witness ==
  /\ request.op = "add"
  /\ response.status = 403
  /\ \E i \in 1..Len(all_assets) :
       /\ all_assets[i].name = Escape(request.name)
       /\ all_assets[i].char_code # Escape(request.char_code)
       /\ all_assets[i].capital # request.capital

\* C5: a list request answers the assets added since the last cleanup, each
\* once, in ascending order of their currency code.
C5_ListSortedAdded ==
  request.op = "list" =>
    /\ response.status = 200
    /\ \A i, j \in 1..Len(response.json) :
         i < j => ~StrLess(response.json[j][1], response.json[i][1])
    /\ Len(response.json) = Cardinality(added)
    /\ { response.json[i] : i \in 1..Len(response.json) }
         = { <<a.char_code, a.name, a.capital, a.interest>> : a \in added }

\* A list request answered two assets of different codes.
C5_Witness ==
  /\ request.op = "list"
  /\ Len(response.json) = 2
  /\ StrLess(response.json[1][1], response.json[2][1])

\* C6: a get request answers the rows a list request would answer whose name
\* is among the requested names, in the order of the list, each once.
C6_GetIsFilteredList ==
  [][request'.op = "get" =>
       LET Asked(row) == \E i \in 1..Len(request'.names) : request'.names[i] = row[2]
       IN  response'.json = SelectSeq(Rows(SortByCharCode(all_assets)), Asked)]_vars

\* A get request that named one asset twice and the other first was answered
\* both assets, the one named twice first and once.
C6_Witness ==
  /\ request.op = "get"
  /\ request.names = << <<"&", "l", "t", ";">>, <<"A">>, <<"A">> >>
  /\ Len(response.json) = 2
  /\ response.json[1][2] = <<"A">>

\* C7: from a cleanup to the next add answered 200, list and get requests
\* answer the empty list, and no add is refused.
C7_EmptyUntilAdd ==
  added = {} =>
    /\ request.op \in {"list", "get"} => response.json = <<>>
    /\ request.op # "add"

\* The first add after a cleanup took a name the cleanup had discarded.
C7_Witness ==
  /\ request.op = "add"
  /\ response.status = 200
  /\ Cardinality(added) = 1
  /\ Escape(request.name) \in cleared


\* The periods a revenue request asked for.
PeriodsOf(req) == { req.periods[i] : i \in 1..Len(req.periods) }

\* Both rate pages of a revenue request were fetched and parsed.
BothTables(req) ==
  ~IndicatorsCall[req.indicators].raised /\ ~DailyCall[req.daily].raised

RECURSIVE SumRevenue(_, _, _)
\* The sum over the assets of rate * capital * ((1 + interest)^years - 1).
SumRevenue(assets, years, rate) ==
  IF assets = <<>> THEN 0
  ELSE rate[Head(assets).char_code] * Head(assets).capital
         * (Pow(1 + Head(assets).interest, years) - 1)
       + SumRevenue(Tail(assets), years, rate)

\* The codes of a list of assets.
CodesOf(assets) == { assets[i].char_code : i \in 1..Len(assets) }

\* The rate the spec states for a code other than RUB: the key indicators'
\* when the code is there, else the daily table's, else 0.
StatedRate(code, indicators, currencies) ==
  IF code \in DOMAIN indicators THEN indicators[code]
  ELSE IF code \in DOMAIN currencies THEN currencies[code]
  ELSE 0

\* C3: in every answered revenue request, a RUB asset counts with rate 1,
\* whatever the two tables hold.
C3_RubRateIsOne ==
  (request.op = "calculate_revenue" /\ response.status = 200) =>
    LET indicators == IndicatorsCall[request.indicators].value
        currencies == DailyCall[request.daily].value
        rate == [code \in CodesOf(all_assets) |->
                   IF code = RUB THEN Scale ELSE RateOf(code, indicators, currencies)]
    IN  \A p \in DOMAIN response.json :
          all_assets # <<>> => response.json[p] = SumRevenue(all_assets, IntOf(p), rate)

\* C4: a daily page without the table, or with its header row alone, and a
\* key-indicators page without its two elements, are answered 503.
C4_NoTableIs503 ==
  /\ (/\ request.op = "daily"
      /\ DailyReply(request.daily).reached
      /\ DailyReply(request.daily).status_code = 200
      /\ Len(DataRows(DailyReply(request.daily).text)) <= 1)
       => response.status = 503
  /\ (/\ request.op = "key_indicators"
      /\ IndicatorsReply(request.indicators).reached
      /\ Len(NodesOfClass(IndicatorsReply(request.indicators).text.nodes,
                          "div", KeyClass)) < 2)
       => response.status = 503

\* C8: a revenue request is answered 503 without totals when a page could not
\* be fetched or parsed, and else 200 with a total for each period asked;
\* either way the registry is left as it was.
C8_AllOrNothing ==
  [][request'.op = "calculate_revenue" =>
       /\ all_assets' = all_assets
       /\ IF BothTables(request')
            THEN /\ response'.status = 200
                 /\ DOMAIN response'.json = PeriodsOf(request')
            ELSE response' = Unavailable]_vars

\* C9: in every answered revenue request an asset other than RUB counts with
\* the key indicators' rate when its code is there, else with the daily
\* table's, else with 0; and a code in neither table raises nothing.
C9_RatePrecedence ==
  request.op = "calculate_revenue" =>
    LET indicators == IndicatorsCall[request.indicators].value
        currencies == DailyCall[request.daily].value
        rate == [code \in CodesOf(all_assets) |->
                   IF code = RUB THEN RateOf(code, indicators, currencies)
                   ELSE StatedRate(code, indicators, currencies)]
    IN  /\ response.status = 200 =>
             \A p \in DOMAIN response.json :
               all_assets # <<>> =>
                 response.json[p] = SumRevenue(all_assets, IntOf(p), rate)
        /\ (BothTables(request) /\ \A p \in PeriodsOf(request) : IsIntText(p))
             => response.status = 200

\* A revenue request was answered with a USD asset, whose code both tables
\* hold with different rates, and an XYZ asset, whose code neither holds.
C9_Witness ==
  /\ request.op = "calculate_revenue"
  /\ response.status = 200
  /\ request.indicators = "page"
  /\ request.daily = "page"
  /\ Len(all_assets) = 2
  /\ all_assets[1].char_code = USD
  /\ all_assets[1].interest = 1
  /\ all_assets[2].char_code = XYZ
  /\ USD \in DOMAIN DailyCall["page"].value
  /\ DailyCall["page"].value[USD] # IndicatorsCall["page"].value[USD]
  /\ response.json[<<"1">>] = IndicatorsCall["page"].value[USD] * all_assets[1].capital


\* C10: served concurrently, the registry's operations are atomic: no other
\* step falls between an add's duplicate check and its append, so the name a
\* thread is about to append is not in the registry and no two assets share
\* a name; and no cleanup or add falls inside a list's sort and loop, so the
\* loop walks the registry's own list, sorted, and has collected its start.
C10_Atomic ==
  /\ \A i, j \in 1..Len(all_assets) : i # j => all_assets[i].name # all_assets[j].name
  /\ \A t \in Threads :
       threads[t].pc = "append" =>
         ~asset_has_duplicate_name(all_assets, threads[t].new_asset)
  /\ \A t \in Threads :
       threads[t].pc = "iterate" =>
         /\ ~threads[t].replaced
         /\ all_assets = SortByCharCode(all_assets)
         /\ threads[t].i <= Len(all_assets)
         /\ threads[t].res = RowsNamed(SubSeq(all_assets, 1, threads[t].i),
                                       IF threads[t].op = "list"
                                         THEN [k \in 1..Len(all_assets) |-> all_assets[k].name]
                                         ELSE threads[t].names)

====
